---- MODULE Spec2Model ----
(***************************************************************************)
(* Model of the ingestion pipeline of RagPipeline-Classic                  *)
(* (app/ingetion.py) and of the /ingest endpoint (app/api.py).             *)
(*                                                                         *)
(* Text is a sequence of one-character strings, so that normalisation,     *)
(* stripping, slicing and id formatting are computed, not assumed.         *)
(***************************************************************************)
EXTENDS Integers, Sequences, FiniteSets, TLC

VARIABLES
    pc,            \* position of the running call
    call,          \* arguments of the running call
    pages,         \* list of {"page", "text"} handed to chunk_pages
    full_text,     \* chunk_pages: the concatenated normalised stream
    char_to_page,  \* chunk_pages: page number of every offset of full_text
    start,         \* chunk_pages: window start
    iter,          \* history: iterations of the while loop taken so far
    chunks,        \* chunk_pages: chunks emitted so far
    windows,       \* history: <<start, end>> of the window of every emitted chunk
    config,        \* config.CHUNK_SIZE and config.CHUNK_OVERLAP of the process
    records,       \* ingest_document: the record batch built
    error,         \* the exception raised by the running call, or "none"
    clock,         \* datetime.utcnow(), advancing with every reading
    store,         \* the vector store: id -> record
    req,           \* the IngestRequest being handled, with the upsert's fate
    response,      \* the answer of ingest_endpoint
    batches,       \* history: the batches ingest_document returned
    upserted       \* history: <<file_path, doc_id, version, time>> of the batches upserted

chunkVars == <<pc, call, pages, full_text, char_to_page, start, iter, chunks, windows>>
ingestVars == <<config, records, error, clock, store, req, response, batches, upserted>>
vars == <<chunkVars, ingestVars>>

----------------------------------------------------------------------------
(* Bounds of the model *)

\* largest chunk_size / overlap tried in a direct call of chunk_pages
MaxChunkSize == 10
\* iterations explored of a while loop whose window start does not advance
MaxStuck == 3
\* calls of ingest_document that run to their return
MaxCalls == 2
\* versions 1..MaxVersion are ingested
MaxVersion == 2

----------------------------------------------------------------------------
(* Python primitives *)

Min(a, b) == IF a < b THEN a ELSE b
Max(a, b) == IF a > b THEN a ELSE b

Range(s) == {s[i] : i \in 1..Len(s)}

\* characters matched by \s and removed by str.strip()
IsSpace(c) == c \in {" ", "\n", "\t"}

\* s[a:b] for integers a, b (negative indices count from the end)
Slice(s, a, b) ==
    LET n  == Len(s)
        lo == IF a < 0 THEN Max(a + n, 0) ELSE Min(a, n)
        hi == IF b < 0 THEN Max(b + n, 0) ELSE Min(b, n)
    IN  IF lo < hi THEN SubSeq(s, lo + 1, hi) ELSE <<>>

RECURSIVE LStrip(_)
LStrip(s) ==
    IF s # <<>> /\ IsSpace(Head(s)) THEN LStrip(Tail(s)) ELSE s

RECURSIVE RStrip(_)
RStrip(s) ==
    IF s # <<>> /\ IsSpace(s[Len(s)]) THEN RStrip(SubSeq(s, 1, Len(s) - 1)) ELSE s

\* str.strip()
Strip(s) == RStrip(LStrip(s))

\* re.sub(r"\s+", " ", text)
RECURSIVE CollapseSpaces(_)
CollapseSpaces(s) ==
    IF s = <<>> THEN <<>>
    ELSE IF IsSpace(Head(s)) THEN <<" ">> \o CollapseSpaces(LStrip(s))
    ELSE <<Head(s)>> \o CollapseSpaces(Tail(s))

clean_text(text) == Strip(CollapseSpaces(text))

\* sorted(set(xs)) for a list of integers
RECURSIVE SortedList(_)
SortedList(S) ==
    IF S = {} THEN <<>>
    ELSE LET m == CHOOSE x \in S : \A y \in S : x <= y
         IN  <<m>> \o SortedList(S \ {m})

SortedSet(xs) == SortedList(Range(xs))

\* [x] * n
Repeat(x, n) == [i \in 1..n |-> x]

----------------------------------------------------------------------------
(* chunk_pages *)

\* mutant of ConcatPage: no space is inserted between two pages
ConcatPageNoSeparator(acc, p) ==
    LET cleaned == clean_text(p.text)
    IN  [full_text    |-> acc.full_text \o cleaned,
         char_to_page |-> acc.char_to_page \o Repeat(p.page, Len(cleaned))]

\* one iteration of "for p in pages" on acc = [full_text, char_to_page]
ConcatPage(acc, p) ==
    LET cleaned == clean_text(p.text)
        sep     == acc.full_text # <<>>
    IN  IF cleaned = <<>> THEN acc
        ELSE [full_text    |-> (IF sep THEN acc.full_text \o <<" ">> ELSE acc.full_text)
                               \o cleaned,
              char_to_page |-> (IF sep THEN Append(acc.char_to_page, p.page)
                                ELSE acc.char_to_page)
                               \o Repeat(p.page, Len(cleaned))]

RECURSIVE ConcatPages(_, _)
ConcatPages(acc, ps) ==
    IF ps = <<>> THEN acc ELSE ConcatPages(ConcatPage(acc, Head(ps)), Tail(ps))

\* end = min(start + chunk_size, len(full_text))
WindowEnd(st, chunk_size, len) == Min(st + chunk_size, len)

\* mutant of PageSet: a chunk is given the page of its first character only
PageSetOfStart(map, st, end) == SortedSet(Slice(map, st, st + 1))

\* page_set = sorted(set(char_to_page[start:end]))
PageSet(map, st, end) == SortedSet(Slice(map, st, end))

\* mutant of Step: the window advances by chunk_size, without overlap
StepWithoutOverlap(chunk_size, overlap) == chunk_size

\* start += chunk_size - overlap
Step(chunk_size, overlap) == chunk_size - overlap

\* the body of the while loop: the chunks with the window's chunk appended, if
\* its stripped text is not empty
EmitWindow(acc, text, map, st, chunk_size) ==
    LET end   == WindowEnd(st, chunk_size, Len(text))
        chunk == Strip(Slice(text, st, end))
    IN  IF chunk # <<>>
        THEN Append(acc, [chunk_text |-> chunk, pages |-> PageSet(map, st, end)])
        ELSE acc

\* the while loop run to its end (it has one when the step is positive)
RECURSIVE ChunkLoop(_, _, _, _, _, _)
ChunkLoop(acc, text, map, st, chunk_size, overlap) ==
    IF st < Len(text)
    THEN ChunkLoop(EmitWindow(acc, text, map, st, chunk_size), text, map,
                   st + Step(chunk_size, overlap), chunk_size, overlap)
    ELSE acc

\* chunk_pages as one evaluation
chunk_pages(ps, chunk_size, overlap) ==
    LET s0 == ConcatPages([full_text |-> <<>>, char_to_page |-> <<>>], ps)
    IN  ChunkLoop(<<>>, s0.full_text, s0.char_to_page, 0, chunk_size, overlap)

\* the for loop of chunk_pages, and the initialisation of the while loop
BuildStream ==
    /\ pc = "concat"
    /\ LET acc == ConcatPages([full_text |-> <<>>, char_to_page |-> <<>>], pages)
       IN  /\ full_text' = acc.full_text
           /\ char_to_page' = acc.char_to_page
    /\ chunks' = <<>>
    /\ windows' = <<>>
    /\ start' = 0
    /\ iter' = 0
    /\ pc' = "window"
    /\ UNCHANGED <<call, pages, ingestVars>>

\* a loop whose window start advances runs to its end; one that is stuck is
\* followed for MaxStuck iterations
MayIterate ==
    IF Step(call.chunk_size, call.overlap) > 0 THEN TRUE ELSE iter < MaxStuck

\* one iteration of "while start < len(full_text)"
Window ==
    /\ pc = "window"
    /\ start < Len(full_text)
    /\ MayIterate
    /\ chunks' = EmitWindow(chunks, full_text, char_to_page, start, call.chunk_size)
    /\ windows' = IF Len(chunks') > Len(chunks)
                  THEN Append(windows, <<start, WindowEnd(start, call.chunk_size,
                                                          Len(full_text))>>)
                  ELSE windows
    /\ start' = start + Step(call.chunk_size, call.overlap)
    /\ iter' = iter + 1
    /\ UNCHANGED <<pc, call, pages, full_text, char_to_page, ingestVars>>

\* the while condition fails: return chunks
ReturnChunks ==
    /\ pc = "window"
    /\ ~(start < Len(full_text))
    /\ pc' = IF call.kind = "chunk_pages" THEN "done" ELSE "chunked"
    /\ UNCHANGED <<call, pages, full_text, char_to_page, start, iter, chunks, windows,
                   ingestVars>>

----------------------------------------------------------------------------
(* The file system and extract_pages *)

UpperCase == <<"A", "B", "C", "D", "E", "F", "G", "H", "I", "J", "K", "L", "M",
               "N", "O", "P", "Q", "R", "S", "T", "U", "V", "W", "X", "Y", "Z">>
LowerCase == <<"a", "b", "c", "d", "e", "f", "g", "h", "i", "j", "k", "l", "m",
               "n", "o", "p", "q", "r", "s", "t", "u", "v", "w", "x", "y", "z">>

\* str.lower()
Lower(s) ==
    [i \in 1..Len(s) |->
        IF \E k \in 1..26 : UpperCase[k] = s[i]
        THEN LowerCase[CHOOSE k \in 1..26 : UpperCase[k] = s[i]]
        ELSE s[i]]

\* the last index of character c in s, 0 when there is none
LastIndex(s, c) ==
    IF \E i \in 1..Len(s) : s[i] = c
    THEN CHOOSE i \in 1..Len(s) : s[i] = c /\ \A j \in (i + 1)..Len(s) : s[j] # c
    ELSE 0

\* os.path.basename(path)
Basename(path) == SubSeq(path, LastIndex(path, "/") + 1, Len(path))

\* os.path.splitext(path)[1]
SplitExt(path) ==
    LET b == Basename(path)
        d == LastIndex(b, ".")
    IN  IF d > 1 THEN SubSeq(b, d, Len(b)) ELSE <<>>

ReportPdf == <<"d", "/", "r", ".", "P", "D", "F">>
NotesTxt == <<"n", ".", "t", "x", "t">>
EmptyMd == <<"e", ".", "m", "d">>
MemoDocx == <<"m", ".", "d", "o", "c", "x">>
GonePdf == <<"g", ".", "p", "d", "f">>
BadPdf == <<"b", ".", "p", "d", "f">>
LostDocx == <<"l", ".", "D", "O", "C", "X">>

\* the files on disk: a PDF holds the text of its physical pages, a text file
\* its content
Files ==
    { [path |-> ReportPdf, corrupt |-> FALSE,
       content |-> << <<"a", "b", " ", "c", "d">>,
                      <<" ", " ">>,
                      <<"e", "f", "\n", " ", "g", "h">> >>],
      [path |-> NotesTxt, corrupt |-> FALSE,
       content |-> << <<" ", "x", " ", " ", "y", " ", "z", "\n">> >>],
      [path |-> EmptyMd, corrupt |-> FALSE, content |-> << <<>> >>],
      [path |-> MemoDocx, corrupt |-> FALSE, content |-> << <<"m">> >>],
      [path |-> BadPdf, corrupt |-> TRUE, content |-> << >>] }

Paths == {ReportPdf, NotesTxt, EmptyMd, MemoDocx, GonePdf, BadPdf, LostDocx}

Exists(path) == \E f \in Files : f.path = path
FileAt(path) == CHOOSE f \in Files : f.path = path

\* the pages of the PDF reader that have text, numbered from 1
RECURSIVE PdfPages(_, _)
PdfPages(content, i) ==
    IF i > Len(content) THEN <<>>
    ELSE (IF Strip(content[i]) # <<>>
          THEN << [page |-> i, text |-> content[i]] >> ELSE <<>>)
         \o PdfPages(content, i + 1)

extract_pages_from_pdf(path) ==
    IF ~Exists(path) THEN [error |-> "FileNotFoundError", pages |-> <<>>]
    ELSE IF FileAt(path).corrupt THEN [error |-> "PdfReadError", pages |-> <<>>]
    ELSE [error |-> "none", pages |-> PdfPages(FileAt(path).content, 1)]

extract_pages_from_txt(path) ==
    IF ~Exists(path) THEN [error |-> "FileNotFoundError", pages |-> <<>>]
    ELSE [error |-> "none",
          pages |-> << [page |-> 1, text |-> FileAt(path).content[1]] >>]

\* mutant of extract_pages: any other extension is read as text
extract_pages_any_text(path) ==
    IF Lower(SplitExt(path)) = <<".", "p", "d", "f">> THEN extract_pages_from_pdf(path)
    ELSE extract_pages_from_txt(path)

extract_pages(path) ==
    LET ext == Lower(SplitExt(path))
    IN  IF ext = <<".", "p", "d", "f">> THEN extract_pages_from_pdf(path)
        ELSE IF ext \in {<<".", "t", "x", "t">>, <<".", "m", "d">>}
        THEN extract_pages_from_txt(path)
        ELSE [error |-> "ValueError", pages |-> <<>>]

----------------------------------------------------------------------------
(* ingest_document *)

DigitChars == <<"0", "1", "2", "3", "4", "5", "6", "7", "8", "9">>

RECURSIVE Digits(_)
Digits(n) ==
    IF n < 10 THEN <<DigitChars[n + 1]>>
    ELSE Digits(n \div 10) \o <<DigitChars[(n % 10) + 1]>>

\* str(n) for an integer
Str(n) == IF n < 0 THEN <<"-">> \o Digits(-n) ELSE Digits(n)

\* ",".join(str(p) for p in ps)
RECURSIVE JoinPages(_)
JoinPages(ps) ==
    IF ps = <<>> THEN <<>>
    ELSE IF Len(ps) = 1 THEN Str(ps[1])
    ELSE Str(ps[1]) \o <<",">> \o JoinPages(Tail(ps))

\* mutant of RecordId: the id leaves the version out
RecordIdNoVersion(doc_id, version, idx) ==
    doc_id \o <<":", ":", "c", "h", "u", "n", "k", "-">> \o Str(idx)

\* mutant of RecordId: the id carries the time of the ingestion
RecordIdTimestamped(doc_id, version, idx) ==
    doc_id \o <<":", ":", "v">> \o Str(version) \o <<":", ":">> \o Str(clock) \o <<":", ":", "c", "h", "u", "n", "k", "-">> \o Str(idx)

\* f"{doc_id}::v{version}::chunk-{idx}"
RecordId(doc_id, version, idx) ==
    doc_id \o <<":", ":", "v">> \o Str(version) \o <<":", ":", "c", "h", "u", "n", "k", "-">> \o Str(idx)

\* mutant of BuildRecord: every record is flagged active
BuildRecordAlwaysActive(c, file_name, now, idx, chunk) ==
    [id         |-> c.doc_id \o <<":", ":", "v">> \o Str(c.version) \o <<":", ":", "c", "h", "u", "n", "k", "-">> \o Str(idx),
     chunk_text |-> chunk.chunk_text,
     metadata   |-> [doc_id      |-> c.doc_id,
                     doc_version |-> c.version,
                     is_active   |-> TRUE,
                     source      |-> file_name,
                     pages       |-> JoinPages(chunk.pages),
                     ingested_at |-> now]]

\* the record of chunk number idx (from 0)
BuildRecord(c, file_name, now, idx, chunk) ==
    [id         |-> RecordId(c.doc_id, c.version, idx),
     chunk_text |-> chunk.chunk_text,
     metadata   |-> [doc_id      |-> c.doc_id,
                     doc_version |-> c.version,
                     is_active   |-> c.is_active,
                     source      |-> file_name,
                     pages       |-> JoinPages(chunk.pages),
                     ingested_at |-> now]]

\* the loop "for idx, chunk in enumerate(chunks)"
RecordList(c, cs, now) ==
    [i \in 1..Len(cs) |-> BuildRecord(c, Basename(c.file_path), now, i - 1, cs[i])]

\* ingest_document as one evaluation, reading the time now
ingest_document(c, now) ==
    LET ex == extract_pages(c.file_path)
    IN  IF ex.error # "none" THEN [error |-> ex.error, records |-> <<>>]
        ELSE [error   |-> "none",
              records |-> RecordList(c, chunk_pages(ex.pages, c.chunk_size, c.overlap),
                                     now)]

\* binding the positional arguments of a call to
\* ingest_document(file_path, doc_id, version, is_active=True), whose chunking
\* uses the defaults chunk_pages took from config
BindIngestDocument(args) ==
    IF Len(args) < 3 \/ Len(args) > 4 THEN [error |-> "TypeError"]
    ELSE [error |-> "none",
          call  |-> [kind       |-> "ingest_document",
                     file_path  |-> args[1],
                     doc_id     |-> args[2],
                     version    |-> args[3],
                     is_active  |-> IF Len(args) = 4 THEN args[4] ELSE TRUE,
                     chunk_size |-> config.chunk_size,
                     overlap    |-> config.overlap]]

----------------------------------------------------------------------------
(* The vector store and upsert_chunks *)

\* every record stored under its id, overwriting the record that has the id
Upserted(st, recs) ==
    LET ids == {recs[i].id : i \in 1..Len(recs)}
    IN  [id \in DOMAIN st \cup ids |->
            IF id \in ids
            THEN LET i == CHOOSE k \in 1..Len(recs) :
                              recs[k].id = id /\ \A j \in (k + 1)..Len(recs) : recs[j].id # id
                 IN  recs[i]
            ELSE st[id]]

\* upsert_chunks(records): the number of records upserted, or an error
upsert_chunks(recs, ok) ==
    IF ok THEN [error |-> "none", upserted |-> Len(recs)]
    ELSE [error |-> "UpsertError", upserted |-> 0]

----------------------------------------------------------------------------
(* Calls of ingest_document(file_path, doc_id, version, is_active) *)

DocIds == { <<"q", "2">>, <<"q">> }
Versions == 1..MaxVersion

Configs == { [chunk_size |-> 4, overlap |-> 1], [chunk_size |-> 3, overlap |-> 0] }

NoCall == [kind |-> "none"]
NoRequest == [kind |-> "none"]
NoResponse == [kind |-> "none"]

\* the batch as history keeps it: without ingested_at
BatchOf(c, recs) ==
    [file_path |-> c.file_path, doc_id |-> c.doc_id, version |-> c.version,
     recs |-> [i \in 1..Len(recs) |->
                  [id |-> recs[i].id, chunk_text |-> recs[i].chunk_text,
                   pages |-> recs[i].metadata.pages]]]

\* the call is over: its locals are gone
CallEnds ==
    /\ pc' = "idle"
    /\ call' = NoCall
    /\ pages' = <<>>
    /\ full_text' = <<>>
    /\ char_to_page' = <<>>
    /\ start' = 0
    /\ iter' = 0
    /\ chunks' = <<>>
    /\ windows' = <<>>
    /\ records' = <<>>
    /\ error' = "none"

\* a caller calls ingest_document
CallIngest ==
    /\ pc = "idle"
    /\ clock < MaxCalls
    /\ \E path \in Paths, doc \in DocIds, v \in Versions, act \in BOOLEAN :
           call' = BindIngestDocument(<<path, doc, v, act>>).call
    /\ pc' = "called"
    /\ UNCHANGED <<pages, full_text, char_to_page, start, iter, chunks, windows,
                   ingestVars>>

\* pages = extract_pages(file_path)
Extract ==
    /\ pc = "called"
    /\ LET ex == extract_pages(call.file_path)
       IN  IF ex.error # "none"
           THEN /\ error' = ex.error
                /\ pc' = "raised"
                /\ UNCHANGED pages
           ELSE /\ pages' = ex.pages
                /\ pc' = "concat"
                /\ UNCHANGED error
    /\ UNCHANGED <<call, full_text, char_to_page, start, iter, chunks, windows,
                   config, records, clock, store, req, response, batches, upserted>>

\* ingestion_time = utcnow(); the loop building records; return records
BuildRecords ==
    /\ pc = "chunked"
    /\ records' = RecordList(call, chunks, clock)
    /\ clock' = clock + 1
    /\ pc' = "returned"
    /\ UNCHANGED <<call, pages, full_text, char_to_page, start, iter, chunks, windows,
                   config, error, store, req, response, batches, upserted>>

\* the caller hands the returned batch to the vector store
Upsert ==
    /\ pc = "returned"
    /\ store' = Upserted(store, records)
    /\ batches' = batches \cup {BatchOf(call, records)}
    /\ upserted' = upserted \cup {<<call.file_path, call.doc_id, call.version, clock - 1>>}
    /\ CallEnds
    /\ UNCHANGED <<config, clock, req, response>>

\* the caller keeps the returned batch to itself, or sees the exception
CallerEnds ==
    /\ pc \in {"returned", "raised"}
    /\ batches' = IF pc = "returned" THEN batches \cup {BatchOf(call, records)}
                  ELSE batches
    /\ CallEnds
    /\ UNCHANGED <<config, clock, store, req, response, upserted>>

----------------------------------------------------------------------------
(* ingest_endpoint *)

\* the except clauses of ingest_endpoint
HttpStatus(err) ==
    IF err = "FileNotFoundError" THEN 404
    ELSE IF err = "ValueError" THEN 400
    ELSE 500

\* the try block of ingest_endpoint: ingest_document(req.file_path), then
\* upsert_chunks(records)
EndpointTry(r) ==
    LET bound == BindIngestDocument(<<r.file_path>>)
    IN  IF bound.error # "none" THEN [error |-> bound.error, records |-> <<>>, chunks |-> 0]
        ELSE LET got == ingest_document(bound.call, clock)
                 up  == upsert_chunks(got.records, r.upsert_ok)
             IN  IF got.error # "none"
                 THEN [error |-> got.error, records |-> <<>>, chunks |-> 0]
                 ELSE [error |-> up.error,
                       records |-> IF up.error = "none" THEN got.records ELSE <<>>,
                       chunks |-> up.upserted]

\* POST /ingest
IngestEndpoint ==
    /\ pc = "idle"
    /\ clock < MaxCalls
    /\ \E path \in Paths, ok \in BOOLEAN :
           req' = [kind |-> "IngestRequest", file_path |-> path, upsert_ok |-> ok]
    /\ LET out == EndpointTry(req')
       IN  /\ response' =
                 IF out.error = "none"
                 THEN [kind |-> "IngestResponse", file |-> req'.file_path,
                       chunks |-> out.chunks]
                 ELSE [kind |-> "HTTPException", status_code |-> HttpStatus(out.error)]
           /\ store' = Upserted(store, out.records)
    /\ pc' = "responded"
    /\ UNCHANGED <<call, pages, full_text, char_to_page, start, iter, chunks, windows,
                   config, records, error, clock, batches, upserted>>

\* the response is sent
SendResponse ==
    /\ pc = "responded"
    /\ pc' = "idle"
    /\ req' = NoRequest
    /\ response' = NoResponse
    /\ UNCHANGED <<call, pages, full_text, char_to_page, start, iter, chunks, windows,
                   config, records, error, clock, store, batches, upserted>>

----------------------------------------------------------------------------
(* The pipeline *)

InitIngestVars ==
    /\ config \in Configs
    /\ records = <<>>
    /\ error = "none"
    /\ clock = 0
    /\ store = <<>>
    /\ req = NoRequest
    /\ response = NoResponse
    /\ batches = {}
    /\ upserted = {}

Init ==
    /\ pc = "idle"
    /\ call = NoCall
    /\ pages = <<>>
    /\ full_text = <<>>
    /\ char_to_page = <<>>
    /\ start = 0
    /\ iter = 0
    /\ chunks = <<>>
    /\ windows = <<>>
    /\ InitIngestVars

Next ==
    \/ CallIngest
    \/ Extract
    \/ BuildStream
    \/ Window
    \/ ReturnChunks
    \/ BuildRecords
    \/ Upsert
    \/ CallerEnds
    \/ IngestEndpoint
    \/ SendResponse

Spec == Init /\ [][Next]_vars

----------------------------------------------------------------------------
(* Direct calls of chunk_pages(pages, chunk_size, overlap) *)

HelloPages ==
    << [page |-> 1, text |-> <<"H", "e", "l", "l", "o", " ", "w", "o", "r", "l", "d", ".">>],
       [page |-> 2, text |-> <<"G", "o", "o", "d", "b", "y", "e", " ", "n", "o", "w", ".">>] >>

PageLists ==
    { HelloPages,
      << [page |-> 1, text |-> <<"a", "b">>], [page |-> 2, text |-> <<"c", "d">>] >>,
      << [page |-> 1, text |-> <<" ", "a", " ", " ", "b", "\n">>],
         [page |-> 2, text |-> <<" ", " ">>],
         [page |-> 3, text |-> <<"c", " ", "d">>] >>,
      << [page |-> 3, text |-> <<"a", "b", "c", " ", "d", "e">>] >>,
      << [page |-> 2, text |-> <<"a", "b">>], [page |-> 1, text |-> <<"c", "d">>] >>,
      << [page |-> 1, text |-> <<"\n", " ">>] >>,
      << >> }

ChunkSizes == -1..MaxChunkSize
Overlaps == -2..MaxChunkSize

InitChunk ==
    /\ pc = "concat"
    /\ pages \in PageLists
    /\ \E cs \in ChunkSizes, ov \in Overlaps :
           call = [kind |-> "chunk_pages", chunk_size |-> cs, overlap |-> ov]
    /\ full_text = <<>>
    /\ char_to_page = <<>>
    /\ start = 0
    /\ iter = 0
    /\ chunks = <<>>
    /\ windows = <<>>
    /\ InitIngestVars

NextChunk == BuildStream \/ Window \/ ReturnChunks

SpecChunk == InitChunk /\ [][NextChunk]_vars

----------------------------------------------------------------------------
(* Properties of chunk_pages, checked under SpecChunk *)

ValidParams == call.chunk_size > call.overlap /\ call.overlap >= 0
InvalidParams == call.overlap >= call.chunk_size \/ call.chunk_size <= 0

\* the characters of full_text at offsets s .. e-1 (0 <= s <= e <= len)
TextAt(s, e) == [i \in 1..(e - s) |-> full_text[s + i]]

\* the offsets Python's [s:e] selects from a list of length n
PyOffsets(s, e, n) ==
    LET lo == IF s < 0 THEN s + n ELSE s
        hi == IF e < 0 THEN e + n ELSE e
    IN  {j \in 0..(n - 1) : lo <= j /\ j < hi}

\* the window starts 0, step, 2*step, ... below len
WindowStarts(step, len) == {k * step : k \in {i \in 0..len : i * step < len}}

\* the window [s, min(s + chunk_size, len)) holds a character that is not whitespace
NonBlank(s) ==
    \E j \in s..(Min(s + call.chunk_size, Len(full_text)) - 1) : ~IsSpace(full_text[j + 1])

\* the emitted chunks are those of the window starts in S, in ascending order,
\* each the stripped text of its clamped window
EmittedFrom(S) ==
    /\ Len(windows) = Cardinality(S)
    /\ Len(chunks) = Len(windows)
    /\ {windows[i][1] : i \in 1..Len(windows)} = S
    /\ \A i \in 1..Len(windows) :
          /\ i > 1 => windows[i - 1][1] < windows[i][1]
          /\ windows[i][2] = Min(windows[i][1] + call.chunk_size, Len(full_text))
          /\ chunks[i].chunk_text = Strip(TextAt(windows[i][1], windows[i][2]))

\* C1 as stated: with chunk_size > overlap >= 0 and a stream of length L > 0,
\* chunk_pages returns exactly one chunk for every window start 0, step, ...
\* below L, in order, each from its clamped window, the last ending at L.
C1_OneChunkPerWindow ==
    (pc = "done" /\ ValidParams /\ Len(full_text) > 0) =>
        /\ EmittedFrom(WindowStarts(call.chunk_size - call.overlap, Len(full_text)))
        /\ windows[Len(windows)][2] = Len(full_text)

\* C1 amended: chunk_pages returns one chunk for every window start 0, step, ...
\* below L whose window is not whitespace only (every window start when
\* chunk_size >= 2), in order, each from its clamped window; the window of the
\* last emitted chunk ends at L.
C1_OneChunkPerNonBlankWindow ==
    (pc = "done" /\ ValidParams /\ Len(full_text) > 0) =>
        LET all == WindowStarts(call.chunk_size - call.overlap, Len(full_text))
        IN  /\ EmittedFrom({s \in all : NonBlank(s)})
            /\ call.chunk_size >= 2 => Len(windows) = Cardinality(all)
            /\ windows # <<>>
            /\ windows[Len(windows)][2] = Len(full_text)

\* C1 witness: a finished call with overlapping windows whose last window is clamped
C1_Witness ==
    /\ pc = "done" /\ ValidParams /\ call.overlap > 0 /\ call.chunk_size >= 2
    /\ Len(chunks) >= 3
    /\ windows[Len(windows)][2] - windows[Len(windows)][1] < call.chunk_size

\* C2 as stated: a call with overlap >= chunk_size or chunk_size <= 0 on a
\* non-empty stream raises; it neither enters the while loop nor returns.
C2_InvalidParametersRaise ==
    (InvalidParams /\ Len(full_text) > 0) => pc \notin {"window", "done"}

\* C3: the pages of every emitted chunk are the page numbers the character map
\* gives the offsets of the chunk's window: all of them, ascending, without
\* duplicates, and at least one.
C3_PagesAreMapOfWindow ==
    \A i \in 1..Len(chunks) :
        LET ps   == chunks[i].pages
            offs == PyOffsets(windows[i][1], windows[i][2], Len(char_to_page))
        IN  /\ ps # <<>>
            /\ \A k \in 1..(Len(ps) - 1) : ps[k] < ps[k + 1]
            /\ Range(ps) = {char_to_page[j + 1] : j \in offs}

\* C3 witness: one call emitted a chunk spanning two pages and a chunk inside one page
C3_Witness ==
    /\ ValidParams
    /\ \E i, j \in 1..Len(chunks) :
          /\ Len(chunks[i].pages) = 2
          /\ Len(chunks[j].pages) = 1
          /\ chunks[j].pages[1] = chunks[i].pages[1]

HelloCall == pages = HelloPages /\ call.chunk_size = 10 /\ call.overlap = 2

HelloStream ==
    <<"H", "e", "l", "l", "o", " ", "w", "o", "r", "l", "d", ".", " ",
      "G", "o", "o", "d", "b", "y", "e", " ", "n", "o", "w", ".">>

HelloWindows ==
    /\ full_text = HelloStream
    /\ Len(full_text) = 25
    /\ Len(chunks) = 4
    /\ [i \in 1..4 |-> windows[i][1]] = <<0, 8, 16, 24>>

\* C8 as stated: the example call builds the 25-character stream and returns
\* four chunks from the windows at 0, 8, 16, 24 with pages [1], [1], [1,2], [2].
C8_ExampleAsStated ==
    (HelloCall /\ pc = "done") =>
        /\ HelloWindows
        /\ [i \in 1..Len(chunks) |-> chunks[i].pages] = << <<1>>, <<1>>, <<1, 2>>, <<2>> >>

\* C8 amended: the example call builds the 25-character stream and returns four
\* chunks from the windows at 0, 8, 16, 24 with pages [1], [1,2], [2], [2].
C8_Example ==
    (HelloCall /\ pc = "done") =>
        /\ HelloWindows
        /\ [i \in 1..Len(chunks) |-> chunks[i].pages] = << <<1>>, <<1, 2>>, <<2>>, <<2>> >>

\* C8 witness: the example call has returned
C8_Witness == HelloCall /\ pc = "done" /\ Len(chunks) = 4

\* offset j of full_text holds the space inserted between two pages
IsSeparator(j) ==
    /\ j > 0
    /\ full_text[j + 1] = " "
    /\ char_to_page[j] # char_to_page[j + 1]

\* C10 as stated: every page a chunk lists contributed a character of its own
\* text (not the inserted separator) to the chunk's stripped text.
C10_ListedPagesContributeText ==
    ValidParams => \A i \in 1..Len(chunks) :
        LET offs == PyOffsets(windows[i][1], windows[i][2], Len(full_text))
            kept == {j \in offs : /\ \E a \in offs : a <= j /\ ~IsSpace(full_text[a + 1])
                                  /\ \E b \in offs : b >= j /\ ~IsSpace(full_text[b + 1])}
        IN  \A p \in Range(chunks[i].pages) :
                \E j \in kept : char_to_page[j + 1] = p /\ ~IsSeparator(j)

----------------------------------------------------------------------------
(* Properties of ingest_document and ingest_endpoint, checked under Spec *)

\* the batches returned so far, the one just returned included
AllBatches ==
    batches \cup (IF pc = "returned" THEN {BatchOf(call, records)} ELSE {})

BatchIds(b) == {b.recs[i].id : i \in 1..Len(b.recs)}

\* C4: two batches of one doc_id and different versions share no id, and the
\* ids of a batch are doc_id::v<version>::chunk-<i>, i = 0..n-1, in chunk order.
C4_VersionsShareNoId ==
    /\ \A b1, b2 \in AllBatches :
          (b1.doc_id = b2.doc_id /\ b1.version # b2.version) =>
              BatchIds(b1) \cap BatchIds(b2) = {}
    /\ pc = "returned" =>
          /\ Len(records) = Len(chunks)
          /\ \A i \in 1..Len(records) :
                records[i].id = call.doc_id \o <<":", ":", "v">> \o Str(call.version)
                                \o <<":", ":", "c", "h", "u", "n", "k", "-">> \o Str(i - 1)

\* C4 witness: the same file was ingested as two versions of one doc_id
C4_Witness ==
    \E b1, b2 \in AllBatches :
        /\ b1.doc_id = b2.doc_id /\ b1.version # b2.version
        /\ b1.file_path = b2.file_path
        /\ Len(b1.recs) >= 2

\* the records the store holds for version v of doc
StoredOf(doc, v) ==
    {id \in DOMAIN store : /\ store[id].metadata.doc_id = doc
                           /\ store[id].metadata.doc_version = v}

\* C5: a batch returned for a file, doc_id and version equals, record for
\* record in id, chunk_text and pages, every batch returned for them before;
\* and while one file only was upserted for a doc_id and version, the store
\* holds exactly one entry per chunk of that file, under the ids of the batch.
C5_ReingestionOverwrites ==
    /\ pc = "returned" =>
          \A b \in batches :
              (/\ b.file_path = call.file_path
               /\ b.doc_id = call.doc_id
               /\ b.version = call.version) => b = BatchOf(call, records)
    /\ \A k \in upserted :
          (\A k2 \in upserted : (k2[2] = k[2] /\ k2[3] = k[3]) => k2[1] = k[1]) =>
              \A b \in batches :
                  (b.file_path = k[1] /\ b.doc_id = k[2] /\ b.version = k[3]) =>
                      /\ StoredOf(k[2], k[3]) = BatchIds(b)
                      /\ Cardinality(StoredOf(k[2], k[3])) = Len(b.recs)
                      /\ \A i \in 1..Len(b.recs) :
                            /\ store[b.recs[i].id].chunk_text = b.recs[i].chunk_text
                            /\ store[b.recs[i].id].metadata.pages = b.recs[i].pages

\* C5 witness: one file was upserted twice, at different times, as the same
\* doc_id and version, and it has several chunks
C5_Witness ==
    /\ pc = "idle"
    /\ \E k1, k2 \in upserted :
          /\ k1[1] = k2[1] /\ k1[2] = k2[2] /\ k1[3] = k2[3] /\ k1[4] # k2[4]
          /\ Cardinality(StoredOf(k1[2], k1[3])) >= 2

\* the versions of doc with a record flagged is_active in the store
ActiveVersions(doc) ==
    {store[id].metadata.doc_version :
        id \in {i \in DOMAIN store : /\ store[i].metadata.doc_id = doc
                                     /\ store[i].metadata.is_active}}

StoredVersions(doc) ==
    {store[id].metadata.doc_version :
        id \in {i \in DOMAIN store : store[i].metadata.doc_id = doc}}

\* C6 as stated: whatever versions of a doc_id were ingested and upserted, the
\* records of only one version are flagged is_active.
C6_OneActiveVersion ==
    \A doc \in DocIds : Cardinality(ActiveVersions(doc)) <= 1

\* C6 amended: the versions coexist: a step changes or removes no stored record
\* of another doc_id or version than the one being upserted, and the records
\* upserted carry the version and the is_active value of their own call.
C6_VersionsCoexist ==
    [][ /\ \A id \in DOMAIN store :
              \/ /\ pc = "returned"
                 /\ store[id].metadata.doc_id = call.doc_id
                 /\ store[id].metadata.doc_version = call.version
              \/ /\ id \in DOMAIN store'
                 /\ store'[id] = store[id]
        /\ (pc = "returned" /\ upserted' # upserted) =>
              \A i \in 1..Len(records) :
                  /\ records[i].id \in DOMAIN store'
                  /\ store'[records[i].id].metadata.doc_version = call.version
                  /\ store'[records[i].id].metadata.is_active = call.is_active
      ]_vars

\* C6 witness: two versions of one doc_id are in the store, both flagged active
C6_Witness ==
    \E doc \in DocIds :
        /\ Cardinality(StoredVersions(doc)) >= 2
        /\ Cardinality(ActiveVersions(doc)) >= 2

\* the extension of path is none of .pdf, .txt, .md, whatever the case
Unsupported(path) ==
    \A e \in {<<".", "p", "d", "f">>, <<".", "t", "x", "t">>, <<".", "m", "d">>} : Lower(SplitExt(path)) # Lower(e)

\* C7: a call on a path with an unsupported extension raises ValueError at
\* extraction, before anything is chunked or built; and a call that raised has
\* no record batch, full or partial.
C7_UnsupportedRaisesFirst ==
    /\ (call.kind = "ingest_document" /\ pc # "called" /\ Unsupported(call.file_path)) =>
          /\ pc = "raised"
          /\ error = "ValueError"
    /\ pc = "raised" =>
          /\ error # "none"
          /\ records = <<>> /\ chunks = <<>> /\ full_text = <<>> /\ pages = <<>>
    /\ error # "none" => pc = "raised"
    /\ \A b \in AllBatches : b.file_path \in {ReportPdf, NotesTxt, EmptyMd}

\* C7 witness: the call on the existing .docx file has raised ValueError
C7_Witness ==
    /\ pc = "raised" /\ error = "ValueError"
    /\ call.file_path = MemoDocx

\* C9 as stated: a request for an existing .pdf/.txt/.md document, with an
\* upsert that succeeds, is answered with an IngestResponse, not an HTTP error.
C9_EndpointAnswersIngestResponse ==
    (/\ pc = "responded"
     /\ req.file_path \in {ReportPdf, NotesTxt, EmptyMd}
     /\ req.upsert_ok) => response.kind = "IngestResponse"

====
